---- MODULE Spec2Model ----
(***************************************************************************)
(* Model of src/main.py: hot word detection (Porcupine) followed by speech *)
(* recognition (Vosk) in three run modes: live (microphone), file (WAV)    *)
(* and radio (HTTP stream).  Each run function is a sequential program;    *)
(* pc is its position, one action per statement group between two points   *)
(* where an exception or an interrupt can be observed.                      *)
(***************************************************************************)
EXTENDS Integers, Sequences, FiniteSets, TLC

\* ---------------------------------------------------------------- bounds
MaxWindows == 18     \* longest input file, in whole detector frames
MaxTail    == 1      \* frames of a trailing partial window of the file
MaxCalls   == 1      \* detector calls followed in live and radio mode
MaxBlocks  == 3      \* blocks followed in one live capture
MaxTime    == 6      \* seconds of wall clock followed
MaxFlushes == 2      \* flushes followed in radio mode
MaxMatches == 2      \* wake matches the detector reports in one run

\* ------------------------------------------------------ program constants
BUFFER_SIZE  == 1024 * 100
BUFFER_TIME  == 5
CHUNK_SIZE   == 1024
BLOCK_FRAMES == 8000
VOSK_RATE    == 16000
frame_length == 512
sample_rate  == 16000

Min(a, b) == IF a < b THEN a ELSE b
Max(a, b) == IF a > b THEN a ELSE b

Modes == {"live", "file", "radio"}

\* texts a transcriber report can carry: "", "a", "ab"
Texts == {<<>>, <<"a">>, <<"a", "b">>}
NoReport == [final |-> FALSE, text |-> <<>>]

\* sizes of one item of response.iter_content(chunk_size=1024); 0 is an
\* empty (keep-alive) chunk
ChunkSizes == {0, CHUNK_SIZE \div 2, CHUNK_SIZE}

\* byte lengths of audio_segment.raw_data of one decoded unit
UnitBytes == {0, 2 * frame_length - 2, 2 * frame_length, 4 * frame_length}

\* exceptions AudioSegment.from_file can end with
DecodeErrors == {"IOError", "ValueError", "CouldntDecodeError"}

VARIABLES
    mode,            \* args.mode
    keywordPresent,  \* CUSTOM_KEYWORD_PATH exists
    voskPresent,     \* VOSK_MODEL_PATH exists
    fileExists,      \* os.path.isfile(path)
    wavValid,        \* the file is a readable RIFF/WAVE container
    nchannels, sampwidth, framerate, nframes,   \* header of the input file
    pc,              \* position in the run function
    porcupine,       \* "none" | "live" | "deleted"
    deletes,         \* number of porcupine.delete() calls
    audio_stream,    \* source handle of the run: "none" | "open" | "closed"
    cap_stream,      \* handle opened by the capture: "none" | "open" | "closed"
    outcome,         \* "running" | "returned" | "raised"
    err,             \* exception that ended the run, or "none"
    stoppedAt,       \* pc at which the run was ended, or "none"
    pos,             \* wav_file.tell() of run_file_mode's handle
    cap_pos,         \* position of the capture's own handle
    start_frame,     \* start_frame of run_file_mode
    fedHigh,         \* end offset of the frames fed to the transcriber so far
    detCalls,        \* number of porcupine.process() calls
    winLens,         \* lengths of the windows handed to porcupine.process()
    result,          \* last value returned by porcupine.process()
    matches,         \* number of process() calls that returned an index
    captures,        \* number of utterance captures started
    capBlocks,       \* blocks fed to the recognizer in the current capture
    report,          \* what the recognizer reported for the last block
    audio_buffer,    \* audio_buffer.tell()
    start_time,      \* start_time of run_radio_mode
    now,             \* time.time()
    audio_data,      \* len(audio_data) of the unit being processed
    flushes,         \* number of process_audio_chunk calls
    ioError,         \* an I/O error was raised by the source at some time
    shared           \* some sample was handed to detector and transcriber

inputs   == <<mode, keywordPresent, voskPresent, fileExists, wavValid,
              nchannels, sampwidth, framerate, nframes>>
resVars  == <<porcupine, deletes, audio_stream, cap_stream>>
endVars  == <<outcome, err, stoppedAt>>
fileVars == <<pos, cap_pos, start_frame, fedHigh>>
detVars  == <<detCalls, winLens, result, matches>>
capVars  == <<captures, capBlocks, report>>
bufVars  == <<audio_buffer, start_time, audio_data, flushes>>
histVars == <<ioError, shared>>
vars     == <<inputs, pc, resVars, endVars, fileVars, detVars, capVars,
              bufVars, now, histVars>>

FileLengths == {k * frame_length + r : k \in 0..MaxWindows, r \in 0..MaxTail}

Init ==
    /\ mode \in Modes
    /\ keywordPresent \in BOOLEAN
    /\ voskPresent \in BOOLEAN
    /\ IF mode = "file"
          THEN /\ fileExists \in BOOLEAN
               /\ wavValid \in BOOLEAN
               /\ nchannels \in {1, 2}
               /\ sampwidth \in {1, 2}
               /\ framerate \in {16000, 44100}
               /\ nframes \in FileLengths
               /\ (~fileExists \/ ~wavValid) =>
                     (nchannels = 1 /\ sampwidth = 2 /\ framerate = 16000 /\ nframes = 0)
               /\ (nchannels # 1 \/ sampwidth # 2 \/ framerate # 16000)
                     => nframes \in {0, frame_length, 2 * frame_length + 1}
               /\ ~fileExists => wavValid
          ELSE /\ fileExists = FALSE
               /\ wavValid = FALSE
               /\ nchannels = 1 /\ sampwidth = 2 /\ framerate = 16000
               /\ nframes = 0
    /\ pc = "main"
    /\ porcupine = "none" /\ deletes = 0
    /\ audio_stream = "none" /\ cap_stream = "none"
    /\ outcome = "running" /\ err = "none" /\ stoppedAt = "none"
    /\ pos = 0 /\ cap_pos = 0 /\ start_frame = 0 /\ fedHigh = 0
    /\ detCalls = 0 /\ winLens = {} /\ result = -1 /\ matches = 0
    /\ captures = 0 /\ capBlocks = 0 /\ report = NoReport
    /\ audio_buffer = 0 /\ start_time = 0 /\ now = 0 /\ audio_data = 0
    /\ flushes = 0
    /\ ioError = FALSE /\ shared = FALSE

\* ------------------------------------------------------------ pure helpers

\* unpack_from without the length check: as many values as the buffer holds
unpack_short(count, nbytes) ==
    [error |-> FALSE, n |-> Min(count, nbytes \div 2)]

\* struct.unpack_from('h' * count, buf): struct.error when buf holds fewer
\* than 2*count bytes, otherwise exactly count values whatever the surplus
unpack_from(count, nbytes) ==
    IF nbytes < 2 * count THEN [error |-> TRUE,  n |-> 0]
                          ELSE [error |-> FALSE, n |-> count]

\* readframes that never runs out of frames
readframes_past(n, p) == n

\* wave readframes(n) at position p: the frames left, at most n
readframes(n, p) == Min(n, nframes - p)

\* values porcupine.process() can return: -1, or the index of the keyword
Verdicts == IF matches < MaxMatches THEN {-1, 0} ELSE {-1}

\* the match test with the sentinel -1 taken for an index
IsMatchLoose(r) == r >= -1

\* the test "result >= 0" after porcupine.process()
IsMatch(r) == r >= 0

\* porcupine.process(pcm_data) on a window of n samples returned r
Processed(n, r) ==
    /\ detCalls' = detCalls + 1
    /\ winLens' = winLens \cup {n}
    /\ result' = r
    /\ matches' = IF r >= 0 THEN matches + 1 ELSE matches

\* the run function is left: by return (e = "none") or by exception e
Stop(out, e) ==
    /\ pc' = "stopped"
    /\ outcome' = out
    /\ err' = e
    /\ stoppedAt' = pc

\* main(): dispatch on args.mode
Main ==
    /\ pc = "main"
    /\ pc' = CASE mode = "live"  -> "L_check"
               [] mode = "radio" -> "S_create"
               [] mode = "file"  -> "F_isfile"
    /\ UNCHANGED histVars
    /\ UNCHANGED <<inputs, resVars, endVars, fileVars, detVars, capVars,
                   bufVars, now>>

\* --------------------------------------------------------------- live mode
LiveTry == {"L_read", "M_open", "M_read"}

\* run_live_mode: os.path.exists checks of both assets
L_check ==
    /\ pc = "L_check"
    /\ IF ~keywordPresent \/ ~voskPresent
          THEN Stop("returned", "none")
          ELSE pc' = "L_create" /\ UNCHANGED endVars
    /\ UNCHANGED histVars
    /\ UNCHANGED <<inputs, resVars, fileVars, detVars, capVars, bufVars, now>>

\* pvporcupine.create(...)
L_create ==
    /\ pc = "L_create"
    /\ porcupine' = "live"
    /\ pc' = "L_open"
    /\ UNCHANGED histVars
    /\ UNCHANGED <<inputs, deletes, audio_stream, cap_stream, endVars,
                   fileVars, detVars, capVars, bufVars, now>>

\* pyaudio.PyAudio().open(...): the device may be missing
L_open ==
    /\ pc = "L_open"
    /\ \E ok \in BOOLEAN :
          IF ok THEN /\ audio_stream' = "open"
                     /\ pc' = "L_model"
                     /\ UNCHANGED <<endVars, ioError>>
                ELSE /\ Stop("raised", "IOError")
                     /\ ioError' = TRUE
                     /\ UNCHANGED audio_stream
    /\ UNCHANGED shared
    /\ UNCHANGED <<inputs, porcupine, deletes, cap_stream, fileVars, detVars,
                   capVars, bufVars, now>>

\* vosk.Model(VOSK_MODEL_PATH)
L_model ==
    /\ pc = "L_model"
    /\ IF voskPresent THEN pc' = "L_read" /\ UNCHANGED endVars
                      ELSE Stop("raised", "Exception")
    /\ UNCHANGED histVars
    /\ UNCHANGED <<inputs, resVars, fileVars, detVars, capVars, bufVars, now>>

\* the finally clause of run_live_mode, after the with block of the capture
LiveFinally ==
    /\ audio_stream' = "closed"
    /\ cap_stream' = IF cap_stream = "open" THEN "closed" ELSE cap_stream
    /\ porcupine' = "deleted"
    /\ deletes' = deletes + 1

\* one turn of the scanning loop: read a frame, unpack, process
L_read ==
    /\ pc = "L_read"
    /\ detCalls < MaxCalls
    /\ \/ \E r \in Verdicts :
            LET u == unpack_from(frame_length, 2 * frame_length) IN
            /\ Processed(u.n, r)
            /\ pc' = IF IsMatch(r) THEN "M_open" ELSE "L_read"
            /\ UNCHANGED <<resVars, endVars, ioError>>
       \/ /\ LiveFinally
          /\ Stop("raised", "IOError")
          /\ ioError' = TRUE
          /\ UNCHANGED detVars
    /\ UNCHANGED shared
    /\ UNCHANGED <<inputs, fileVars, capVars, bufVars, now>>

\* recognize_next_word_microphone: sd.RawInputStream(...) and KaldiRecognizer
M_open ==
    /\ pc = "M_open"
    /\ cap_stream' = "open"
    /\ captures' = captures + 1
    /\ capBlocks' = 0
    /\ report' = NoReport
    /\ pc' = "M_read"
    /\ UNCHANGED histVars
    /\ UNCHANGED <<inputs, porcupine, deletes, audio_stream, endVars,
                   fileVars, detVars, bufVars, now>>

\* the live break test satisfied by any non-empty partial
LiveBreakAnyText(rep) == ~rep.final /\ Len(rep.text) > 0

\* the break test of the live capture on what the recognizer reported
LiveBreak(rep) == ~rep.final /\ Len(rep.text) > 1

\* one turn of the capture loop: read a block, AcceptWaveform, PartialResult
M_read ==
    /\ pc = "M_read"
    /\ capBlocks < MaxBlocks
    /\ \/ \E f \in BOOLEAN, t \in Texts :
            LET rep == [final |-> f, text |-> t] IN
            /\ report' = rep
            /\ capBlocks' = capBlocks + 1
            /\ IF LiveBreak(rep)
                  THEN /\ cap_stream' = "closed"
                       /\ pc' = "L_read"
                  ELSE /\ pc' = "M_read"
                       /\ UNCHANGED cap_stream
            /\ UNCHANGED <<porcupine, deletes, audio_stream, endVars, ioError>>
       \/ /\ LiveFinally
          /\ Stop("raised", "IOError")
          /\ ioError' = TRUE
          /\ UNCHANGED <<report, capBlocks>>
    /\ UNCHANGED shared
    /\ UNCHANGED <<inputs, captures, fileVars, detVars, bufVars, now>>

\* KeyboardInterrupt in run_live_mode
LiveInterrupt ==
    /\ mode = "live"
    /\ pc \in {"L_check", "L_create", "L_open", "L_model"} \cup LiveTry
    /\ IF pc \in LiveTry
          THEN LiveFinally /\ Stop("returned", "KeyboardInterrupt")
          ELSE Stop("raised", "KeyboardInterrupt") /\ UNCHANGED resVars
    /\ UNCHANGED histVars
    /\ UNCHANGED <<inputs, fileVars, detVars, capVars, bufVars, now>>

\* --------------------------------------------------------------- file mode
FileTry == {"F_open", "F_check", "F_read", "F_match",
            "R_isfile", "R_open", "R_setpos", "R_read"}

\* run_file_mode: the with block is left and the finally clause runs
FileFinally ==
    /\ audio_stream' = IF audio_stream = "open" THEN "closed" ELSE audio_stream
    /\ cap_stream' = IF cap_stream = "open" THEN "closed" ELSE cap_stream
    /\ porcupine' = "deleted"
    /\ deletes' = deletes + 1

\* run_file_mode: os.path.isfile(path)
F_isfile ==
    /\ pc = "F_isfile"
    /\ IF fileExists THEN pc' = "F_create" /\ UNCHANGED endVars
                     ELSE Stop("returned", "none")
    /\ UNCHANGED histVars
    /\ UNCHANGED <<inputs, resVars, fileVars, detVars, capVars, bufVars, now>>

\* pvporcupine.create(...): fails when the keyword file is absent
F_create ==
    /\ pc = "F_create"
    /\ IF keywordPresent
          THEN /\ porcupine' = "live"
               /\ pc' = "F_model"
               /\ UNCHANGED endVars
          ELSE /\ Stop("raised", "PorcupineError")
               /\ UNCHANGED porcupine
    /\ UNCHANGED histVars
    /\ UNCHANGED <<inputs, deletes, audio_stream, cap_stream, fileVars,
                   detVars, capVars, bufVars, now>>

\* vosk.Model(VOSK_MODEL_PATH), before the try statement
F_model ==
    /\ pc = "F_model"
    /\ IF voskPresent THEN pc' = "F_open" /\ UNCHANGED endVars
                      ELSE Stop("raised", "Exception")
    /\ UNCHANGED histVars
    /\ UNCHANGED <<inputs, resVars, fileVars, detVars, capVars, bufVars, now>>

\* wave.open(path, 'rb')
F_open ==
    /\ pc = "F_open"
    /\ IF wavValid
          THEN /\ audio_stream' = "open"
               /\ pos' = 0
               /\ pc' = "F_check"
               /\ UNCHANGED <<porcupine, deletes, cap_stream, endVars>>
          ELSE /\ FileFinally
               /\ Stop("returned", "wave.Error")
               /\ UNCHANGED pos
    /\ UNCHANGED histVars
    /\ UNCHANGED <<inputs, cap_pos, start_frame, fedHigh, detVars, capVars,
                   bufVars, now>>

\* the format test without the comparison of the sample rate
FormatOkAnyRate(rate) == nchannels = 1 /\ sampwidth = 2

\* the format test of run_file_mode
FormatOk(rate) == nchannels = 1 /\ sampwidth = 2 /\ framerate = rate

F_check ==
    /\ pc = "F_check"
    /\ IF FormatOk(sample_rate)
          THEN pc' = "F_read" /\ UNCHANGED <<resVars, endVars>>
          ELSE FileFinally /\ Stop("returned", "none")
    /\ UNCHANGED histVars
    /\ UNCHANGED <<inputs, fileVars, detVars, capVars, bufVars, now>>

\* one turn of the scanning loop of run_file_mode
F_read ==
    /\ pc = "F_read"
    /\ \/ LET got == readframes(frame_length, pos)
              u   == unpack_from(frame_length, 2 * got) IN
          /\ pos' = pos + got
          /\ UNCHANGED ioError
          /\ IF got = 0
                THEN /\ FileFinally
                     /\ Stop("returned", "none")
                     /\ UNCHANGED <<detVars, shared>>
                ELSE IF u.error
                THEN /\ FileFinally
                     /\ Stop("returned", "struct.error")
                     /\ UNCHANGED <<detVars, shared>>
                ELSE \E r \in Verdicts :
                     /\ Processed(u.n, r)
                     /\ shared' = (shared \/ pos < fedHigh)
                     /\ pc' = IF IsMatch(r) THEN "F_match" ELSE "F_read"
                     /\ UNCHANGED <<resVars, endVars>>
       \/ /\ FileFinally
          /\ Stop("returned", "IOError")
          /\ ioError' = TRUE
          /\ UNCHANGED <<pos, detVars, shared>>
    /\ UNCHANGED <<inputs, cap_pos, start_frame, fedHigh, capVars, bufVars, now>>

\* the bookmark taken at the start of the matched window
tell_window == pos - frame_length

\* wav_file.tell() of run_file_mode's handle
tell == pos

\* result >= 0: start_frame = wav_file.tell(), then the capture is called
F_match ==
    /\ pc = "F_match"
    /\ start_frame' = tell
    /\ captures' = captures + 1
    /\ capBlocks' = 0
    /\ report' = NoReport
    /\ pc' = "R_isfile"
    /\ UNCHANGED histVars
    /\ UNCHANGED <<inputs, resVars, endVars, pos, cap_pos, fedHigh, detVars,
                   bufVars, now>>

\* recognize_next_word_from_position returns to the scanning loop
CaptureReturn ==
    /\ pc' = "F_read"
    /\ cap_stream' = IF cap_stream = "open" THEN "closed" ELSE cap_stream
    /\ cap_pos' = 0
    /\ UNCHANGED <<porcupine, deletes, audio_stream, endVars>>

R_isfile ==
    /\ pc = "R_isfile"
    /\ IF fileExists
          THEN pc' = "R_open" /\ UNCHANGED <<resVars, endVars, cap_pos>>
          ELSE CaptureReturn
    /\ UNCHANGED histVars
    /\ UNCHANGED <<inputs, pos, start_frame, fedHigh, detVars, capVars,
                   bufVars, now>>

\* wave.open(file_path, 'rb') of the capture and its format test
R_open ==
    /\ pc = "R_open"
    /\ IF FormatOk(VOSK_RATE)
          THEN /\ cap_stream' = "open"
               /\ cap_pos' = 0
               /\ pc' = "R_setpos"
               /\ UNCHANGED <<porcupine, deletes, audio_stream, endVars>>
          ELSE CaptureReturn
    /\ UNCHANGED histVars
    /\ UNCHANGED <<inputs, pos, start_frame, fedHigh, detVars, capVars,
                   bufVars, now>>

\* wav_file.setpos(start_frame): wave.Error outside 0..nframes
R_setpos ==
    /\ pc = "R_setpos"
    /\ IF start_frame \in 0..nframes
          THEN /\ cap_pos' = start_frame
               /\ pc' = "R_read"
               /\ UNCHANGED <<resVars, endVars>>
          ELSE CaptureReturn
    /\ UNCHANGED histVars
    /\ UNCHANGED <<inputs, pos, start_frame, fedHigh, detVars, capVars,
                   bufVars, now>>

\* the file break test satisfied by any final result, empty or not
FileBreakAnyFinal(rep) == rep.final

\* the break test of the file capture on what the recognizer reported
FileBreak(rep) == rep.final /\ rep.text # <<>>

\* one turn of the capture loop of recognize_next_word_from_position
R_read ==
    /\ pc = "R_read"
    /\ \/ LET got == readframes(BLOCK_FRAMES, cap_pos) IN
          IF got = 0
             THEN /\ CaptureReturn
                  /\ UNCHANGED <<fedHigh, capVars, ioError>>
             ELSE \E f \in BOOLEAN, t \in Texts :
                  LET rep == [final |-> f, text |-> t] IN
                  /\ report' = rep
                  /\ capBlocks' = capBlocks + 1
                  /\ fedHigh' = Max(fedHigh, cap_pos + got)
                  /\ UNCHANGED <<captures, ioError>>
                  /\ IF FileBreak(rep)
                        THEN CaptureReturn
                        ELSE /\ cap_pos' = cap_pos + got
                             /\ pc' = "R_read"
                             /\ UNCHANGED <<resVars, endVars>>
       \/ /\ CaptureReturn
          /\ ioError' = TRUE
          /\ UNCHANGED <<fedHigh, capVars>>
    /\ UNCHANGED shared
    /\ UNCHANGED <<inputs, pos, start_frame, detVars, bufVars, now>>

\* KeyboardInterrupt in run_file_mode
FileInterrupt ==
    /\ mode = "file"
    /\ pc \in {"F_isfile", "F_create", "F_model"} \cup FileTry
    /\ IF pc \in FileTry
          THEN FileFinally
          ELSE UNCHANGED resVars
    /\ Stop("raised", "KeyboardInterrupt")
    /\ UNCHANGED histVars
    /\ UNCHANGED <<inputs, fileVars, detVars, capVars, bufVars, now>>

\* -------------------------------------------------------------- radio mode
RadioTry == {"S_get", "S_init", "S_iter", "P_decode", "P_detect",
             "P_recognize", "P_play", "S_reset"}

\* exceptions the except clause of process_audio_chunk catches
ChunkCaught == {"IOError", "struct.error", "ValueError"}

\* the finally clause of run_radio_mode
RadioFinally ==
    /\ porcupine' = "deleted"
    /\ deletes' = deletes + 1
    /\ UNCHANGED <<audio_stream, cap_stream>>

\* pvporcupine.create(...), before the try statement
S_create ==
    /\ pc = "S_create"
    /\ IF keywordPresent
          THEN /\ porcupine' = "live"
               /\ pc' = "S_get"
               /\ UNCHANGED endVars
          ELSE /\ Stop("raised", "PorcupineError")
               /\ UNCHANGED porcupine
    /\ UNCHANGED histVars
    /\ UNCHANGED <<inputs, deletes, audio_stream, cap_stream, fileVars,
                   detVars, capVars, bufVars, now>>

\* requests.get(RADIO_URL, stream=True) and response.raise_for_status()
S_get ==
    /\ pc = "S_get"
    /\ \/ /\ audio_stream' = "open"
          /\ pc' = "S_init"
          /\ UNCHANGED <<porcupine, deletes, cap_stream, endVars, ioError>>
       \/ /\ porcupine' = "deleted"
          /\ deletes' = deletes + 1
          /\ audio_stream' \in {"none", "open"}
          /\ UNCHANGED cap_stream
          /\ Stop("returned", "RequestException")
          /\ ioError' = TRUE
    /\ UNCHANGED shared
    /\ UNCHANGED <<inputs, fileVars, detVars, capVars, bufVars, now>>

\* audio_buffer = BytesIO(); start_time = time.time(); vosk.Model(...)
S_init ==
    /\ pc = "S_init"
    /\ audio_buffer' = 0
    /\ start_time' = now
    /\ IF voskPresent
          THEN pc' = "S_iter" /\ UNCHANGED <<resVars, endVars>>
          ELSE RadioFinally /\ Stop("raised", "Exception")
    /\ UNCHANGED histVars
    /\ UNCHANGED <<inputs, fileVars, detVars, capVars, audio_data, flushes, now>>

\* the flush test with a size bound more than one chunk above the ceiling
FlushDueLate(size, elapsed) ==
    size > BUFFER_SIZE + CHUNK_SIZE \/ elapsed >= BUFFER_TIME

\* the flush test without the time bound
FlushDueSizeOnly(size, elapsed) == size >= BUFFER_SIZE

\* the flush test after audio_buffer.write(chunk)
FlushDue(size, elapsed) == size >= BUFFER_SIZE \/ elapsed >= BUFFER_TIME

\* one item of response.iter_content: skip, append, or append and flush
S_iter ==
    /\ pc = "S_iter"
    /\ flushes < MaxFlushes
    /\ \/ \E chunk \in ChunkSizes :
            /\ UNCHANGED <<resVars, endVars, ioError>>
            /\ IF chunk = 0
                  THEN UNCHANGED <<pc, audio_buffer, flushes>>
                  ELSE /\ audio_buffer' = audio_buffer + chunk
                       /\ IF FlushDue(audio_buffer + chunk, now - start_time)
                             THEN pc' = "P_decode" /\ flushes' = flushes + 1
                             ELSE pc' = "S_iter" /\ UNCHANGED flushes
       \/ /\ RadioFinally
          /\ \E e \in {"none", "RequestException"} :
                Stop("returned", e) /\ ioError' = (e # "none")
          /\ UNCHANGED <<audio_buffer, flushes>>
    /\ UNCHANGED shared
    /\ UNCHANGED <<inputs, fileVars, detVars, capVars, start_time,
                   audio_data, now>>

\* process_audio_chunk: buffer.seek(0); AudioSegment.from_file; raw_data
P_decode ==
    /\ pc = "P_decode"
    /\ \/ \E n \in UnitBytes :
            /\ audio_data' = n
            /\ pc' = "P_detect"
            /\ UNCHANGED <<resVars, endVars>>
       \/ \E e \in DecodeErrors :
            /\ UNCHANGED audio_data
            /\ IF e \in ChunkCaught
                  THEN pc' = "S_reset" /\ UNCHANGED <<resVars, endVars>>
                  ELSE RadioFinally /\ Stop("raised", e)
    /\ UNCHANGED histVars
    /\ UNCHANGED <<inputs, fileVars, detVars, capVars, audio_buffer,
                   start_time, flushes, now>>

\* unpack the first frame_length samples of the unit and process them
P_detect ==
    /\ pc = "P_detect"
    /\ detCalls < MaxCalls
    /\ LET u == unpack_from(frame_length, Min(audio_data, frame_length * 2)) IN
       IF u.error
          THEN /\ pc' = "S_reset"
               /\ UNCHANGED detVars
          ELSE \E r \in Verdicts :
               /\ Processed(u.n, r)
               /\ pc' = IF IsMatch(r) THEN "P_recognize" ELSE "P_play"
    /\ UNCHANGED histVars
    /\ UNCHANGED <<inputs, resVars, endVars, fileVars, capVars, bufVars, now>>

\* recognize_word_in_chunk(vosk_model, audio_data)
P_recognize ==
    /\ pc = "P_recognize"
    /\ captures' = captures + 1
    /\ capBlocks' = 1
    /\ \E f \in BOOLEAN, t \in Texts : report' = [final |-> f, text |-> t]
    /\ shared' = (shared \/ Min(audio_data, 2 * frame_length) > 0)
    /\ pc' = "P_play"
    /\ UNCHANGED ioError
    /\ UNCHANGED <<inputs, resVars, endVars, fileVars, detVars, bufVars, now>>

\* play(audio_segment)
P_play ==
    /\ pc = "P_play"
    /\ pc' = "S_reset"
    /\ UNCHANGED histVars
    /\ UNCHANGED <<inputs, resVars, endVars, fileVars, detVars, capVars,
                   bufVars, now>>

\* audio_buffer = BytesIO(); start_time = time.time()
S_reset ==
    /\ pc = "S_reset"
    /\ audio_buffer' = 0
    /\ start_time' = now
    /\ audio_data' = 0
    /\ pc' = "S_iter"
    /\ UNCHANGED histVars
    /\ UNCHANGED <<inputs, resVars, endVars, fileVars, detVars, capVars,
                   flushes, now>>

\* the wall clock advances while run_radio_mode runs
Tick ==
    /\ mode = "radio"
    /\ pc \in RadioTry
    /\ now < MaxTime
    /\ now' = now + 1
    /\ UNCHANGED histVars
    /\ UNCHANGED <<inputs, pc, resVars, endVars, fileVars, detVars, capVars,
                   bufVars>>

\* KeyboardInterrupt in run_radio_mode
RadioInterrupt ==
    /\ mode = "radio"
    /\ pc \in {"S_create"} \cup RadioTry
    /\ IF pc \in RadioTry
          THEN RadioFinally
          ELSE UNCHANGED resVars
    /\ Stop("raised", "KeyboardInterrupt")
    /\ UNCHANGED histVars
    /\ UNCHANGED <<inputs, fileVars, detVars, capVars, bufVars, now>>

Next ==
    \/ Main
    \/ L_check \/ L_create \/ L_open \/ L_model \/ L_read \/ M_open \/ M_read
    \/ LiveInterrupt
    \/ F_isfile \/ F_create \/ F_model \/ F_open \/ F_check \/ F_read
    \/ F_match \/ R_isfile \/ R_open \/ R_setpos \/ R_read
    \/ FileInterrupt
    \/ S_create \/ S_get \/ S_init \/ S_iter \/ P_decode \/ P_detect
    \/ P_recognize \/ P_play \/ S_reset \/ Tick
    \/ RadioInterrupt

Spec == Init /\ [][Next]_vars

\* ------------------------------------------- file mode alone, with fairness
FileInit == Init /\ mode = "file"

FileStep ==
    \/ Main
    \/ F_isfile \/ F_create \/ F_model \/ F_open \/ F_check \/ F_read
    \/ F_match \/ R_isfile \/ R_open \/ R_setpos \/ R_read

FileNext == FileStep \/ FileInterrupt

\* run_file_mode is one sequential program: its next statement always runs
FileSpec == FileInit /\ [][FileNext]_vars /\ WF_vars(FileStep)

\* ------------------------------------------------------------------ claims

\* C1: every window handed to porcupine.process() has exactly frame_length
\* samples, and a read or a decoded unit that holds fewer samples than
\* frame_length does not lead to a detector call.
C1_WindowIsFrameLength ==
    [][ /\ winLens' \subseteq {frame_length}
        /\ (pc = "F_read" /\ readframes(frame_length, pos) < frame_length)
              => detCalls' = detCalls
        /\ (pc = "P_detect" /\ audio_data < 2 * frame_length)
              => detCalls' = detCalls ]_vars

\* a file with a trailing partial window was scanned up to that window
C1_Witness ==
    /\ mode = "file" /\ pc = "stopped" /\ err = "struct.error"
    /\ nframes % frame_length # 0
    /\ pos = nframes
    /\ detCalls = nframes \div frame_length
    /\ detCalls >= 1

\* the file is a valid mono 16-bit WAV of whole detector frames, the assets
\* are present
WholeFramesFile ==
    /\ mode = "file" /\ keywordPresent /\ voskPresent
    /\ fileExists /\ wavValid /\ FormatOk(sample_rate)
    /\ nframes % frame_length = 0

\* C2: file mode on a valid file of exactly N full frames on which the
\* detector never reports a match: the run reaches "stopped", and, ended by
\* the end of the file, it has made exactly N detector calls and started no
\* capture.
C2_QuietFileScansEveryFrame ==
    /\ [](  (WholeFramesFile /\ pc = "stopped" /\ matches = 0 /\ err = "none")
            => (detCalls * frame_length = nframes /\ captures = 0) )
    /\ (WholeFramesFile => <>(pc = "stopped"))

C2_Witness ==
    /\ WholeFramesFile /\ pc = "stopped" /\ matches = 0 /\ err = "none"
    /\ nframes >= 2 * frame_length
    /\ detCalls * frame_length = nframes

\* C3: in file mode every window handed to the detector starts at or after
\* the end of the frames already fed to the transcriber: after a capture
\* returns, scanning resumes after the frames the capture consumed.
C3_ScanResumesAfterCapture ==
    [][ (mode = "file" /\ detCalls' = detCalls + 1) => pos >= fedHigh ]_vars

\* C4: the reassembly buffer never exceeds BUFFER_SIZE by more than the chunk
\* just appended; the append that makes it reach BUFFER_SIZE triggers exactly
\* one flush; the buffer is empty when a flush has completed and below the
\* ceiling whenever the next chunk is awaited.
C4_BufferSizeBound ==
    [][ /\ audio_buffer' < BUFFER_SIZE + CHUNK_SIZE
        /\ audio_buffer' > audio_buffer
              => audio_buffer' - BUFFER_SIZE < audio_buffer' - audio_buffer
        /\ (pc = "S_iter" /\ audio_buffer' >= BUFFER_SIZE)
              => (pc' = "P_decode" /\ flushes' = flushes + 1)
        /\ (pc = "S_reset" /\ pc' = "S_iter") => audio_buffer' = 0
        /\ pc' = "S_iter" => audio_buffer' < BUFFER_SIZE ]_vars

\* a flush triggered by size alone, strictly above the ceiling
C4_Witness ==
    /\ pc = "P_decode" /\ flushes = 1
    /\ audio_buffer > BUFFER_SIZE
    /\ now - start_time < BUFFER_TIME

\* C5: a non-empty chunk appended when at least BUFFER_TIME has elapsed since
\* start_time triggers a flush whatever the buffer size, and a completed
\* flush empties the buffer and sets start_time to the current time.
C5_BufferTimeBound ==
    [][ /\ (pc = "S_iter" /\ audio_buffer' > audio_buffer
               /\ now - start_time >= BUFFER_TIME)
              => (pc' = "P_decode" /\ flushes' = flushes + 1)
        /\ (pc = "S_reset" /\ pc' = "S_iter")
              => (audio_buffer' = 0 /\ start_time' = now /\ now' = now) ]_vars

\* a flush of a single small chunk, triggered by time alone
C5_Witness ==
    /\ pc = "P_decode" /\ flushes = 1
    /\ audio_buffer = CHUNK_SIZE \div 2
    /\ now - start_time >= BUFFER_TIME

\* C6: a decode failure on a flushed unit, of any kind, never ends the run:
\* no exception raised while decoding or slicing the unit leaves
\* process_audio_chunk.
C6_DecodeFailureContained ==
    ~ ( /\ pc = "stopped"
        /\ stoppedAt \in {"P_decode", "P_detect"}
        /\ err \in DecodeErrors \cup {"struct.error"} )

\* C7: the live capture loop ends after a block exactly when the recognizer
\* reported a partial result longer than one character for that block; while
\* the loop goes on, the last block did not report such a partial.
C7_LivePartialPolicy ==
    [][ /\ (pc = "M_read" /\ capBlocks' = capBlocks + 1)
              => (pc' = "L_read" <=> (~report'.final /\ Len(report'.text) > 1))
        /\ (pc' = "M_read" /\ capBlocks' > 0)
              => (report'.final \/ Len(report'.text) <= 1) ]_vars

\* the capture went on after its first block and ended at its second, on "ab"
C7_Witness ==
    /\ mode = "live" /\ pc = "L_read" /\ captures = 1 /\ capBlocks = 2
    /\ report = [final |-> FALSE, text |-> <<"a", "b">>]
    /\ cap_stream = "closed"

\* C8: the file capture loop ends after a block exactly when the recognizer
\* reported a final result with non-empty text for that block; a block with
\* a partial result or an empty final result leaves the loop running.
C8_FileFinalPolicy ==
    [][ /\ (pc = "R_read" /\ capBlocks' = capBlocks + 1)
              => (pc' = "F_read" <=> (report'.final /\ report'.text # <<>>))
        /\ (pc' = "R_read" /\ capBlocks' > 0)
              => (~report'.final \/ report'.text = <<>>) ]_vars

\* the capture went on after its first block and ended at its second
C8_Witness ==
    /\ mode = "file" /\ pc = "F_read" /\ captures = 1 /\ capBlocks = 2
    /\ report.final /\ report.text # <<>>
    /\ cap_stream = "closed"

\* C9: a user interrupt that arrives during the capture, in live or radio
\* mode, leaves the source handle of the run closed when the run has ended.
C9_InterruptReleasesSource ==
    ( /\ pc = "stopped" /\ err = "KeyboardInterrupt"
      /\ stoppedAt \in {"M_open", "M_read", "P_recognize"} )
    => audio_stream = "closed"

\* C10: when the keyword file or the Vosk model directory is absent, no
\* detector is created, no audio source is opened and no window is
\* processed, in any mode.
C10_AssetsValidatedFirst ==
    (~keywordPresent \/ ~voskPresent)
    => (porcupine = "none" /\ audio_stream = "none" /\ detCalls = 0)

\* C11: a file that is not mono, not 16-bit or not at the detector's sample
\* rate is rejected before processing: the scanning loop is never entered,
\* no frame is read, the detector is never called and no capture starts.
C11_BadFormatRejected ==
    (mode = "file" /\ ~(nchannels = 1 /\ sampwidth = 2 /\ framerate = sample_rate))
    => /\ detCalls = 0 /\ captures = 0
       /\ pos = 0 /\ fedHigh = 0
       /\ pc \notin {"F_read", "F_match", "R_isfile", "R_open", "R_setpos", "R_read"}
       /\ (pc = "stopped" /\ stoppedAt = "F_check" /\ err = "none")
             => (audio_stream = "closed" /\ outcome = "returned")

\* a file with frames in it and a wrong header was rejected by the format test
C11_Witness ==
    /\ mode = "file" /\ pc = "stopped" /\ stoppedAt = "F_check" /\ err = "none"
    /\ ~(nchannels = 1 /\ sampwidth = 2 /\ framerate = sample_rate)
    /\ nframes > frame_length
    /\ pos = 0 /\ detCalls = 0
\* positions inside process_audio_chunk
Processing == {"P_decode", "P_detect", "P_recognize", "P_play"}

\* C12: in radio mode the ingestion of the next chunk is never blocked by the
\* processing of a flushed unit: while a unit is decoded, scanned,
\* transcribed or played, the next item of the stream can be taken.
C12_IngestionNeverBlocked ==
    (mode = "radio" /\ pc \in Processing /\ flushes < MaxFlushes)
    => ENABLED S_iter

\* C13: at most one audio source handle is open at any moment: the capture
\* never holds a handle of its own while the handle of the run is open.
C13_OneOpenHandle ==
    ~(audio_stream = "open" /\ cap_stream = "open")
\* C14: an I/O error raised by the source ends the run, whether it is raised
\* while scanning or inside the capture: from then on the run is stopped.
C14_IOErrorIsFatal ==
    ioError => pc = "stopped"

\* C16: however the run ends, a detector that was created has been deleted
\* exactly once when the run function is left.
C16_DetectorDeletedOnce ==
    (pc = "stopped" /\ porcupine # "none")
    => (porcupine = "deleted" /\ deletes = 1)

\* C17: no sample is handed both to the detector and to the transcriber.
C17_NoSampleSharedByConsumers ==
    ~shared

\* C15: file mode terminates: the run reaches "stopped"; every turn of the
\* scanning loop that goes on advances the file position, every block of a
\* capture advances the capture within the file, and a capture that meets
\* the end of the file returns to the scanning loop without a further block.
C15_FileModeTerminates ==
    /\ <>(pc = "stopped")
    /\ [][ /\ (pc = "F_read" /\ pc' \in {"F_read", "F_match"})
                 => (pos' > pos /\ pos' <= nframes)
           /\ (pc = "R_read" /\ pc' = "R_read")
                 => (cap_pos' > cap_pos /\ cap_pos' <= nframes)
           /\ fedHigh' <= nframes
           /\ (pc = "R_read" /\ cap_pos = nframes /\ pc' # "stopped")
                 => (pc' = "F_read" /\ capBlocks' = capBlocks) ]_vars

\* a capture ran to the end of the file without a final result, scanning
\* went on and the run ended at the end of the file
C15_Witness ==
    /\ mode = "file" /\ pc = "stopped" /\ err = "none" /\ ~ioError
    /\ captures >= 1 /\ capBlocks >= 1
    /\ ~(report.final /\ report.text # <<>>)
    /\ nframes > frame_length
    /\ fedHigh = nframes /\ pos = nframes
\* C18: on a wake match in file mode start_frame is recorded before the
\* capture is entered and is the offset right after the matched window; the
\* capture is positioned at start_frame and every block it feeds starts at
\* or after it, so the matched window is not fed to the transcriber.
C18_FilePositionAfterMatch ==
    [][ /\ (pc = "F_read" /\ pc' = "F_match") => pos' = pos + frame_length
        /\ (pc = "F_match" /\ pc' # "stopped")
              => (start_frame' = pos /\ pc' = "R_isfile" /\ capBlocks' = 0)
        /\ (pc = "R_setpos" /\ pc' = "R_read") => cap_pos' = start_frame
        /\ (pc = "R_read" /\ capBlocks' = capBlocks + 1)
              => (cap_pos >= start_frame /\ start_frame = pos)
        /\ (pc = "R_read" /\ capBlocks = 0 /\ capBlocks' = 1)
              => cap_pos = start_frame ]_vars

\* the second window matched and the capture fed its first block from there
C18_Witness ==
    /\ mode = "file" /\ pc = "R_read" /\ captures = 1 /\ capBlocks = 1
    /\ start_frame = 2 * frame_length /\ pos = start_frame
    /\ cap_pos > start_frame
\* C19: in radio mode bytes do not stay in the reassembly buffer beyond
\* BUFFER_TIME: once a non-empty buffer has reached that age, no turn of the
\* ingestion loop leaves it unflushed, and it can be flushed without a
\* further non-empty chunk.
C19_LullFlushes ==
    (mode = "radio" /\ pc = "S_iter" /\ audio_buffer > 0
        /\ now - start_time >= BUFFER_TIME /\ flushes < MaxFlushes)
    => /\ ~ENABLED (S_iter /\ pc' = "S_iter")
       /\ ENABLED (S_iter /\ pc' = "P_decode" /\ audio_buffer' = audio_buffer)

\* C20: in radio mode a unit is handed to process_audio_chunk once per
\* flush; inside it the detector is called at most once, on frame_length
\* samples, the transcriber runs only after that call reported a match, and
\* the unit is dropped before the next flush.
C20_UnitProcessedOnce ==
    [][ mode = "radio" =>
        /\ (pc' = "P_decode" /\ pc # "P_decode")
              => (pc = "S_iter" /\ flushes' = flushes + 1)
        /\ (pc' = "P_detect" /\ pc # "P_detect") => pc = "P_decode"
        /\ detCalls' # detCalls
              => /\ pc = "P_detect" /\ pc' \in {"P_recognize", "P_play"}
                 /\ detCalls' = detCalls + 1
                 /\ winLens' = {frame_length}
        /\ (pc' = "P_recognize" /\ pc # "P_recognize")
              => (pc = "P_detect" /\ detCalls' = detCalls + 1 /\ result' >= 0)
        /\ captures' # captures
              => /\ pc = "P_recognize" /\ pc' = "P_play"
                 /\ captures' = captures + 1 /\ result >= 0
        /\ (pc \in Processing /\ pc' = "S_iter") => FALSE
        /\ (pc = "S_reset" /\ pc' = "S_iter")
              => (audio_buffer' = 0 /\ audio_data' = 0) ]_vars

\* a unit longer than one window was scanned once, matched and transcribed
C20_Witness ==
    /\ mode = "radio" /\ pc = "S_reset" /\ flushes = 1
    /\ audio_data > 2 * frame_length
    /\ detCalls = 1 /\ winLens = {frame_length} /\ result >= 0
    /\ captures = 1
====
